---------------------------- MODULE Spec2Model ----------------------------
(* A model of python/_google/protobuf/message_factory.py: the message      *)
(* factory (GetPrototype, CreatePrototype, GetMessages) and the module     *)
(* level GetMessages with its dependency resolver _AddFile.  Every call    *)
(* runs as a sequence of steps over an explicit call stack, so that        *)
(* recursion, re-entrancy, termination and exceptions are visible.         *)
EXTENDS Integers, Sequences, FiniteSets, TLC

(***************************************************************************)
(* Bounds                                                                  *)
(***************************************************************************)
\* number of top-level calls made by the client in one behaviour
MaxCalls == 2
\* longest batch of file protos handed to the module-level GetMessages
MaxBatch == 2
\* cap on the number of classes the backend may construct
MaxClasses == 6

(***************************************************************************)
(* The inputs: file protos, message descriptors, extension descriptors.    *)
(* They are the objects the code reads attributes of.                      *)
(***************************************************************************)
\* file_proto objects; "a2" is a second, different proto whose name is also
\* "a" (the same messages declared in another order)
Protos == {"a", "a2", "b", "c", "d", "e"}

\* file_proto.name
name == [p \in Protos |-> IF p = "a2" THEN "a" ELSE p]

\* file_proto.dependency, the ordered list of file names
dependency ==
  [p \in Protos |->
     CASE p = "b" -> <<"a">>
       [] p = "c" -> <<"b", "a">>
       [] p = "d" -> <<"e">>
       [] p = "e" -> <<"e", "d">>
       [] OTHER   -> <<>>]

\* message descriptors (identified by full_name); "R" is declared in no
\* file: a client built it and only hands it to GetPrototype
Descs == {"Node", "M", "A", "B", "P", "R"}

\* extension field descriptors
Exts == {"e100", "x100", "x101", "x102", "r102"}

\* file_desc.message_types_by_name.values()
message_types_by_name ==
  [p \in Protos |->
     CASE p = "a"  -> <<"Node", "M">>
       [] p = "a2" -> <<"M", "Node">>
       [] p = "b"  -> <<"A", "B">>
       [] p = "c"  -> <<"P">>
       [] OTHER    -> <<>>]

\* file_desc.extensions_by_name.values()
extensions_by_name ==
  [p \in Protos |-> IF p = "b" THEN <<"e100">> ELSE <<>>]

\* descriptor.fields, each given by its field.message_type ("" is None)
fields ==
  [d \in Descs |->
     CASE d = "Node" -> <<"", "Node">>
       [] d = "A"    -> <<"B">>
       [] d = "B"    -> <<"A", "">>
       [] d = "P"    -> <<"B">>
       [] d = "R"    -> <<"P">>
       [] OTHER      -> <<>>]

\* descriptor.extensions, the extensions declared in the message's namespace
extensions ==
  [d \in Descs |->
     CASE d = "P" -> <<"x101", "x102">>
       [] d = "R" -> <<"x100", "r102">>
       [] OTHER   -> <<>>]

\* extension.containing_type
containing_type ==
  [e \in Exts |-> IF e = "x101" THEN "P" ELSE "M"]

\* extension.message_type ("" is None)
message_type ==
  [e \in Exts |->
     CASE e = "e100" -> "Node"
       [] e = "x101" -> "A"
       [] e = "r102" -> "Node"
       [] OTHER      -> ""]

\* extension.number
number ==
  [e \in Exts |->
     CASE e = "e100" -> 100
       [] e = "x100" -> 100
       [] e = "x101" -> 101
       [] OTHER      -> 102]

\* the factory objects: 1 is the module's _FACTORY, 2 is another instance
Factories == {1, 2}

\* the module-level factory
_FACTORY == 1

(***************************************************************************)
(* State                                                                   *)
(***************************************************************************)
VARIABLES
  pool,            \* _FACTORY.pool: the file protos registered by Add
  concrete_class,  \* descriptor._concrete_class (0 is None)
  classes,         \* the generated classes, by identity 1..Len(classes)
  file_by_name,    \* the resolver's pending dict, as the set of its values
  stack,           \* call stack, innermost frame first
  result,          \* the dict MessageFactory.GetMessages is filling
  pc,              \* "idle", "resolve" (lines 167-175) or "run"
  cur,             \* the top-level call in progress or last made
  status,          \* "none", "running", "ok" or "error" of cur
  err,             \* the exception that ended cur ("" when none)
  retClass,        \* the class returned by the last GetPrototype (0: none)
  retMap,          \* the mapping returned by the last GetMessages
  added,           \* the protos passed to pool.Add by cur, in order
  calls            \* number of top-level calls made

vars == <<pool, concrete_class, classes, file_by_name, stack, result, pc,
          cur, status, err, retClass, retMap, added, calls>>

\* an empty dict
EmptyMap == [x \in {} |-> 0]

\* d[k] = v on a dict
Put(m, k, v) == [x \in (DOMAIN m) \cup {k} |-> IF x = k THEN v ELSE m[x]]

\* the set of elements of a list
Range(s) == {s[k] : k \in DOMAIN s}

\* the lists of distinct protos with distinct names, as a caller may pass
Batches ==
  {b \in UNION {[1..n -> Protos] : n \in 0..MaxBatch} :
     \A x, y \in DOMAIN b : x # y => name[b[x]] # name[b[y]]}

Init ==
  /\ pool = {}
  /\ concrete_class = [d \in Descs |-> 0]
  /\ classes = <<>>
  /\ file_by_name = {}
  /\ stack = <<>>
  /\ result = EmptyMap
  /\ pc = "idle"
  /\ cur = [op |-> "none", self |-> 0, d |-> "", batch |-> <<>>]
  /\ status = "none"
  /\ err = ""
  /\ retClass = 0
  /\ retMap = EmptyMap
  /\ added = <<>>
  /\ calls = 0


(***************************************************************************)
(* Collaborators outside message_factory.py                                *)
(***************************************************************************)
\* pool.Add(file_proto) raises: a dependency is not registered yet, or the
\* name is registered with a different definition
AddFails(pl, p) ==
  \/ \E k \in DOMAIN dependency[p] :
       ~ \E q \in pl : name[q] = dependency[p][k]
  \/ \E q \in pl : name[q] = name[p] /\ q # p

\* pool.Add(file_proto) when it succeeds
Add(pl, p) == pl \cup {p}

\* pool.FindFileByName(file_name): the registered protos of that name
FindFileByName(pl, n) == {q \in pl : name[q] = n}

\* the extension already registered on a class under the number of e
Registered(cl, e) == {x \in cl.exts : number[x] = number[e]}

\* RegisterExtension that accepts any definition at any number
RegisterNeverFails(cl, e) == FALSE

\* extended_class.RegisterExtension(extension) raises: the number is taken
\* by a different extension
RegisterFails(cl, e) == \E x \in Registered(cl, e) : x # e

\* extended_class.RegisterExtension(extension) when it succeeds
RegisterExtension(cl, e) == [cl EXCEPT !.exts = cl.exts \cup {e}]

\* _GENERATED_PROTOCOL_MESSAGE_TYPE(name, bases, dict): the class object the
\* backend constructs for a descriptor, tagged with the factory (line 103)
NewClass(self, d) == [DESCRIPTOR |-> d, FACTORY |-> self, exts |-> {}]

\* the backend records the class it constructed on the descriptor
SetConcrete(cc, d, c) == [cc EXCEPT ![d] = c]

(***************************************************************************)
(* Frames of the call stack                                                *)
(***************************************************************************)
Frame(fn, self, file, files, d, cls, phase) ==
  [fn |-> fn, self |-> self, file |-> file, files |-> files, d |-> d,
   cls |-> cls, phase |-> phase, i |-> 1, j |-> 1, ec |-> 0,
   await |-> "none"]

\* _AddFile(file_proto), about to scan file_proto.dependency
AddFileFrame(p) == Frame("_AddFile", 0, p, <<>>, "", 0, "deps")

\* MessageFactory.GetMessages(files), about to look at files[1]
GetMessagesFrame(self, files) ==
  Frame("GetMessages", self, "", files, "", 0, "find")

\* CreatePrototype(descriptor) after lines 94-103, about to scan the fields
CreateFrame(self, d, c) == Frame("CreatePrototype", self, "", <<>>, d, c, "fields")

\* the frame being executed
Top == Head(stack)

\* GetPrototype without lines 75-77: every call builds a class
GetPrototypeAlwaysCreate(d) == 0

\* GetPrototype that trusts _concrete_class only once the class is complete
GetPrototypeAfterBuild(d) ==
  IF \E k \in DOMAIN stack :
       stack[k].fn = "CreatePrototype" /\ stack[k].d = d
    THEN 0
    ELSE concrete_class[d]

\* GetPrototype lines 75-77: the cached class, 0 when CreatePrototype is due
GetPrototype(d) == concrete_class[d]

\* GetMessages without lines 143-147: only nested extensions are registered
ExtListNestedOnly(f) ==
  IF f.fn = "CreatePrototype" THEN extensions[f.d] ELSE <<>>

\* CreatePrototype without lines 107-111: nested extensions are not handled
ExtListTopLevelOnly(f) ==
  IF f.fn = "CreatePrototype" THEN <<>> ELSE extensions_by_name[f.file]

\* the list of extensions a frame iterates: descriptor.extensions in
\* CreatePrototype, file_desc.extensions_by_name.values() in GetMessages
ExtList(f) ==
  IF f.fn = "CreatePrototype" THEN extensions[f.d]
  ELSE extensions_by_name[f.file]

\* line 176 losing the last file of the batch
NameListButLast(b) == [k \in 1..(Len(b) - 1) |-> name[b[k]]]

\* the names passed on line 176
NameList(b) == [k \in DOMAIN b |-> name[b[k]]]

(***************************************************************************)
(* Effects shared by the steps                                             *)
(***************************************************************************)
\* an exception propagates to the caller of the top-level call
Raise(e) ==
  /\ stack' = <<>>
  /\ pc' = "idle"
  /\ status' = "error"
  /\ err' = e
  /\ retClass' = 0
  /\ retMap' = EmptyMap

\* GetPrototype misses (line 78): CreatePrototype constructs the class
\* (lines 94-103) and starts on the fields; the caller frame waits
EnterCreate(self, d, caller, rest) ==
  /\ Len(classes) < MaxClasses
  /\ classes' = Append(classes, NewClass(self, d))
  /\ concrete_class' = SetConcrete(concrete_class, d, Len(classes) + 1)
  /\ stack' = <<CreateFrame(self, d, Len(classes) + 1)>> \o caller \o rest

(***************************************************************************)
(* Top-level calls                                                         *)
(***************************************************************************)
\* message_factory.GetMessages(file_protos): line 167
CallGetMessages(b) ==
  /\ pc = "idle"
  /\ calls < MaxCalls
  /\ calls' = calls + 1
  /\ cur' = [op |-> "GetMessages", self |-> _FACTORY, d |-> "", batch |-> b]
  /\ file_by_name' = Range(b)
  /\ pc' = "resolve"
  /\ status' = "running"
  /\ err' = ""
  /\ retClass' = 0
  /\ retMap' = EmptyMap
  /\ result' = EmptyMap
  /\ added' = <<>>
  /\ UNCHANGED <<pool, concrete_class, classes, stack>>

\* factory.GetPrototype(descriptor) called by a client: lines 75-79
CallGetPrototype(self, d) ==
  /\ pc = "idle"
  /\ calls < MaxCalls
  /\ calls' = calls + 1
  /\ cur' = [op |-> "GetPrototype", self |-> self, d |-> d, batch |-> <<>>]
  /\ err' = ""
  /\ retMap' = EmptyMap
  /\ IF GetPrototype(d) # 0
       THEN /\ retClass' = GetPrototype(d)
            /\ status' = "ok"
            /\ UNCHANGED <<pc, stack, classes, concrete_class>>
       ELSE /\ EnterCreate(self, d, <<>>, <<>>)
            /\ pc' = "run"
            /\ status' = "running"
            /\ retClass' = 0
  /\ UNCHANGED <<pool, file_by_name, result, added>>

\* CreatePrototype that looks at descriptor._concrete_class first, as
\* GetPrototype does
CallCreatePrototypeCached(self, d) ==
  /\ pc = "idle"
  /\ calls < MaxCalls
  /\ calls' = calls + 1
  /\ cur' = [op |-> "CreatePrototype", self |-> self, d |-> d, batch |-> <<>>]
  /\ err' = ""
  /\ retMap' = EmptyMap
  /\ IF concrete_class[d] # 0
       THEN /\ retClass' = concrete_class[d]
            /\ status' = "ok"
            /\ UNCHANGED <<pc, stack, classes, concrete_class>>
       ELSE /\ EnterCreate(self, d, <<>>, <<>>)
            /\ pc' = "run"
            /\ status' = "running"
            /\ retClass' = 0
  /\ UNCHANGED <<pool, file_by_name, result, added>>

\* factory.CreatePrototype(descriptor) called by a client: lines 94-103,
\* the loops of lines 104-111 follow as steps
CallCreatePrototype(self, d) ==
  /\ pc = "idle"
  /\ calls < MaxCalls
  /\ calls' = calls + 1
  /\ cur' = [op |-> "CreatePrototype", self |-> self, d |-> d, batch |-> <<>>]
  /\ err' = ""
  /\ retMap' = EmptyMap
  /\ EnterCreate(self, d, <<>>, <<>>)
  /\ pc' = "run"
  /\ status' = "running"
  /\ retClass' = 0
  /\ UNCHANGED <<pool, file_by_name, result, added>>

(***************************************************************************)
(* The dependency resolver, lines 168-175                                  *)
(***************************************************************************)
\* line 174-175: while file_by_name: _AddFile(file_by_name.popitem()[1])
PopItem ==
  /\ pc = "resolve"
  /\ stack = <<>>
  /\ \E p \in file_by_name :
       /\ file_by_name' = file_by_name \ {p}
       /\ stack' = <<AddFileFrame(p)>>
  /\ UNCHANGED <<pool, concrete_class, classes, result, pc, cur, status, err,
                 retClass, retMap, added, calls>>

\* lines 169-172 without the recursive call: dependencies are not added first
AddFileDepNoRecursion ==
  /\ pc = "resolve"
  /\ stack # <<>>
  /\ Top.i <= Len(dependency[Top.file])
  /\ stack' = <<[Top EXCEPT !.i = Top.i + 1]>> \o Tail(stack)
  /\ UNCHANGED <<pool, concrete_class, classes, file_by_name, result, pc, cur,
                 status, err, retClass, retMap, added, calls>>

\* lines 169-172 with file_by_name[dependency] in place of
\* file_by_name.pop(dependency): the dependency stays pending
AddFileDepNoPop ==
  /\ pc = "resolve"
  /\ stack # <<>>
  /\ Top.i <= Len(dependency[Top.file])
  /\ LET dep == dependency[Top.file][Top.i]
         hit == {q \in file_by_name : name[q] = dep}
         caller == [Top EXCEPT !.i = Top.i + 1]
     IN IF hit # {}
          THEN stack' = <<AddFileFrame(CHOOSE q \in hit : TRUE), caller>>
                        \o Tail(stack)
          ELSE stack' = <<caller>> \o Tail(stack)
  /\ UNCHANGED <<pool, concrete_class, classes, file_by_name, result, pc, cur,
                 status, err, retClass, retMap, added, calls>>

\* lines 169-172: one iteration of the loop over file_proto.dependency
AddFileDep ==
  /\ pc = "resolve"
  /\ stack # <<>>
  /\ Top.i <= Len(dependency[Top.file])
  /\ LET dep == dependency[Top.file][Top.i]
         hit == {q \in file_by_name : name[q] = dep}
         caller == [Top EXCEPT !.i = Top.i + 1]
     IN IF hit # {}
          THEN LET q == CHOOSE q \in hit : TRUE
               IN /\ file_by_name' = file_by_name \ {q}
                  /\ stack' = <<AddFileFrame(q), caller>> \o Tail(stack)
          ELSE /\ stack' = <<caller>> \o Tail(stack)
               /\ UNCHANGED file_by_name
  /\ UNCHANGED <<pool, concrete_class, classes, result, pc, cur, status, err,
                 retClass, retMap, added, calls>>

\* line 173 with the registry's error swallowed: _AddFile just returns
PoolAddSwallow ==
  /\ pc = "resolve"
  /\ stack # <<>>
  /\ Top.i > Len(dependency[Top.file])
  /\ added' = Append(added, Top.file)
  /\ pool' = IF AddFails(pool, Top.file) THEN pool ELSE Add(pool, Top.file)
  /\ stack' = Tail(stack)
  /\ UNCHANGED <<concrete_class, classes, file_by_name, result, pc, cur,
                 status, err, retClass, retMap, calls>>

\* line 173 guarded by a check of the dependencies: a file with a dependency
\* that is not registered is skipped instead of being passed to Add
PoolAddSkipMissing ==
  /\ pc = "resolve"
  /\ stack # <<>>
  /\ Top.i > Len(dependency[Top.file])
  /\ stack' = Tail(stack)
  /\ IF AddFails(pool, Top.file)
       THEN UNCHANGED <<pool, added>>
       ELSE /\ pool' = Add(pool, Top.file)
            /\ added' = Append(added, Top.file)
  /\ UNCHANGED <<concrete_class, classes, file_by_name, result, pc, cur,
                 status, err, retClass, retMap, calls>>

\* line 173 made transactional: when Add raises, the files this call has
\* registered are taken out of the pool again
PoolAddRollback ==
  /\ pc = "resolve"
  /\ stack # <<>>
  /\ Top.i > Len(dependency[Top.file])
  /\ added' = Append(added, Top.file)
  /\ IF AddFails(pool, Top.file)
       THEN /\ Raise("AddError")
            /\ pool' = pool \ Range(added)
       ELSE /\ pool' = Add(pool, Top.file)
            /\ stack' = Tail(stack)
            /\ UNCHANGED <<pc, status, err, retClass, retMap>>
  /\ UNCHANGED <<concrete_class, classes, file_by_name, result, cur, calls>>

\* line 173: _FACTORY.pool.Add(file_proto), then _AddFile returns
PoolAdd ==
  /\ pc = "resolve"
  /\ stack # <<>>
  /\ Top.i > Len(dependency[Top.file])
  /\ added' = Append(added, Top.file)
  /\ IF AddFails(pool, Top.file)
       THEN /\ Raise("AddError")
            /\ UNCHANGED pool
       ELSE /\ pool' = Add(pool, Top.file)
            /\ stack' = Tail(stack)
            /\ UNCHANGED <<pc, status, err, retClass, retMap>>
  /\ UNCHANGED <<concrete_class, classes, file_by_name, result, cur, calls>>

\* lines 174-176 with the loop entered once unconditionally: popitem() on an
\* empty dict raises KeyError
CallFactoryPopsFirst ==
  /\ pc = "resolve"
  /\ stack = <<>>
  /\ file_by_name = {}
  /\ IF cur.batch = <<>>
       THEN Raise("KeyError")
       ELSE /\ stack' = <<GetMessagesFrame(_FACTORY, NameList(cur.batch))>>
            /\ pc' = "run"
            /\ UNCHANGED <<status, err, retClass, retMap>>
  /\ UNCHANGED <<pool, concrete_class, classes, file_by_name, result, cur,
                 added, calls>>

\* line 176: the pending dict is empty, call _FACTORY.GetMessages(names)
CallFactoryGetMessages ==
  /\ pc = "resolve"
  /\ stack = <<>>
  /\ file_by_name = {}
  /\ stack' = <<GetMessagesFrame(_FACTORY, NameList(cur.batch))>>
  /\ pc' = "run"
  /\ UNCHANGED <<pool, concrete_class, classes, file_by_name, result, cur,
                 status, err, retClass, retMap, added, calls>>

(***************************************************************************)
(* MessageFactory.GetMessages, lines 128-148                               *)
(***************************************************************************)
\* lines 129-130 and 148: next file name, pool.FindFileByName, or return
FindFile ==
  /\ pc = "run"
  /\ stack # <<>>
  /\ Top.fn = "GetMessages"
  /\ Top.phase = "find"
  /\ IF Top.i > Len(Top.files)
       THEN /\ retMap' = result
            /\ status' = "ok"
            /\ pc' = "idle"
            /\ stack' = <<>>
            /\ UNCHANGED <<err, retClass>>
       ELSE LET found == FindFileByName(pool, Top.files[Top.i])
            IN IF found = {}
                 THEN Raise("NotFound")
                 ELSE /\ stack' = <<[Top EXCEPT
                                       !.file = CHOOSE q \in found : TRUE,
                                       !.phase = "msgs", !.j = 1]>>
                                  \o Tail(stack)
                      /\ UNCHANGED <<pc, status, err, retClass, retMap>>
  /\ UNCHANGED <<pool, concrete_class, classes, file_by_name, result, cur,
                 added, calls>>

\* lines 131-132: result[desc.full_name] = self.GetPrototype(desc)
MessageLoop ==
  /\ pc = "run"
  /\ stack # <<>>
  /\ Top.fn = "GetMessages"
  /\ Top.phase = "msgs"
  /\ LET msgs == message_types_by_name[Top.file]
     IN IF Top.j > Len(msgs)
          THEN /\ stack' = <<[Top EXCEPT !.phase = "ext_get", !.j = 1]>>
                           \o Tail(stack)
               /\ UNCHANGED <<result, classes, concrete_class>>
          ELSE LET d == msgs[Top.j]
                   next == [Top EXCEPT !.j = Top.j + 1]
               IN IF GetPrototype(d) # 0
                    THEN /\ result' = Put(result, d, GetPrototype(d))
                         /\ stack' = <<next>> \o Tail(stack)
                         /\ UNCHANGED <<classes, concrete_class>>
                    ELSE /\ EnterCreate(Top.self, d,
                               <<[next EXCEPT !.await = "result"]>>,
                               Tail(stack))
                         /\ UNCHANGED result
  /\ UNCHANGED <<pool, file_by_name, pc, cur, status, err, retClass, retMap,
                 added, calls>>

(***************************************************************************)
(* MessageFactory.CreatePrototype, lines 104-112                           *)
(***************************************************************************)
\* lines 104-106: one iteration of the loop over descriptor.fields
FieldLoop ==
  /\ pc = "run"
  /\ stack # <<>>
  /\ Top.fn = "CreatePrototype"
  /\ Top.phase = "fields"
  /\ LET fs == fields[Top.d]
     IN IF Top.j > Len(fs)
          THEN /\ stack' = <<[Top EXCEPT !.phase = "ext_get", !.j = 1]>>
                           \o Tail(stack)
               /\ UNCHANGED <<classes, concrete_class>>
          ELSE LET mt == fs[Top.j]
                   next == [Top EXCEPT !.j = Top.j + 1]
               IN IF mt = "" \/ GetPrototype(mt) # 0
                    THEN /\ stack' = <<next>> \o Tail(stack)
                         /\ UNCHANGED <<classes, concrete_class>>
                    ELSE EnterCreate(Top.self, mt,
                             <<[next EXCEPT !.await = "ignore"]>>,
                             Tail(stack))
  /\ UNCHANGED <<pool, file_by_name, result, pc, cur, status, err, retClass,
                 retMap, added, calls>>

\* line 112: return result_class; the caller takes the value as it awaits it
Return ==
  /\ pc = "run"
  /\ stack # <<>>
  /\ Top.fn = "CreatePrototype"
  /\ Top.phase = "ext_get"
  /\ Top.j > Len(ExtList(Top))
  /\ IF Tail(stack) = <<>>
       THEN /\ stack' = <<>>
            /\ pc' = "idle"
            /\ status' = "ok"
            /\ retClass' = Top.cls
            /\ UNCHANGED result
       ELSE LET caller == Head(Tail(stack))
                back == [caller EXCEPT
                           !.await = "none",
                           !.ec = IF caller.await = "ec" THEN Top.cls ELSE @]
            IN /\ stack' = <<back>> \o Tail(Tail(stack))
               /\ result' = IF caller.await = "result"
                              THEN Put(result, Top.d, Top.cls)
                              ELSE result
               /\ UNCHANGED <<pc, status, retClass>>
  /\ UNCHANGED <<pool, concrete_class, classes, file_by_name, cur, err, retMap,
                 added, calls>>

(***************************************************************************)
(* The extension loops: lines 107-111 of CreatePrototype and lines 143-147 *)
(* of GetMessages, which are the same three statements                     *)
(***************************************************************************)
\* lines 108 / 144: extended_class = self.GetPrototype(extension.containing_type)
ExtensionGet ==
  /\ pc = "run"
  /\ stack # <<>>
  /\ Top.phase = "ext_get"
  /\ Top.j <= Len(ExtList(Top))
  /\ LET ct == containing_type[ExtList(Top)[Top.j]]
         next == [Top EXCEPT !.phase = "ext_reg"]
     IN IF GetPrototype(ct) # 0
          THEN /\ stack' = <<[next EXCEPT !.ec = GetPrototype(ct)]>>
                           \o Tail(stack)
               /\ UNCHANGED <<classes, concrete_class>>
          ELSE EnterCreate(Top.self, ct, <<[next EXCEPT !.await = "ec"]>>,
                           Tail(stack))
  /\ UNCHANGED <<pool, file_by_name, result, pc, cur, status, err, retClass,
                 retMap, added, calls>>

\* lines 109 / 145: extended_class.RegisterExtension(extension)
ExtensionRegister ==
  /\ pc = "run"
  /\ stack # <<>>
  /\ Top.phase = "ext_reg"
  /\ Top.await = "none"
  /\ LET e == ExtList(Top)[Top.j]
     IN IF RegisterFails(classes[Top.ec], e)
          THEN /\ Raise("ExtensionConflict")
               /\ UNCHANGED classes
          ELSE /\ classes' = [classes EXCEPT
                                ![Top.ec] = RegisterExtension(classes[Top.ec], e)]
               /\ stack' = <<IF message_type[e] # ""
                               THEN [Top EXCEPT !.phase = "ext_msg"]
                               ELSE [Top EXCEPT !.phase = "ext_get",
                                                !.j = Top.j + 1]>>
                           \o Tail(stack)
               /\ UNCHANGED <<pc, status, err, retClass, retMap>>
  /\ UNCHANGED <<pool, concrete_class, file_by_name, result, cur, added, calls>>

\* lines 110-111 / 146-147: self.GetPrototype(extension.message_type)
ExtensionMessage ==
  /\ pc = "run"
  /\ stack # <<>>
  /\ Top.phase = "ext_msg"
  /\ LET mt == message_type[ExtList(Top)[Top.j]]
         next == [Top EXCEPT !.phase = "ext_get", !.j = Top.j + 1]
     IN IF GetPrototype(mt) # 0
          THEN /\ stack' = <<next>> \o Tail(stack)
               /\ UNCHANGED <<classes, concrete_class>>
          ELSE EnterCreate(Top.self, mt, <<[next EXCEPT !.await = "ignore"]>>,
                           Tail(stack))
  /\ UNCHANGED <<pool, file_by_name, result, pc, cur, status, err, retClass,
                 retMap, added, calls>>

\* lines 146-147 of GetMessages end the iteration over one file
NextFile ==
  /\ pc = "run"
  /\ stack # <<>>
  /\ Top.fn = "GetMessages"
  /\ Top.phase = "ext_get"
  /\ Top.j > Len(ExtList(Top))
  /\ stack' = <<[Top EXCEPT !.phase = "find", !.i = Top.i + 1]>> \o Tail(stack)
  /\ UNCHANGED <<pool, concrete_class, classes, file_by_name, result, pc, cur,
                 status, err, retClass, retMap, added, calls>>

(***************************************************************************)
(* Specifications                                                          *)
(***************************************************************************)
\* the steps of a call in progress
Step ==
  \/ PopItem
  \/ AddFileDep
  \/ PoolAdd
  \/ CallFactoryGetMessages
  \/ FindFile
  \/ MessageLoop
  \/ FieldLoop
  \/ Return
  \/ ExtensionGet
  \/ ExtensionRegister
  \/ ExtensionMessage
  \/ NextFile

Next ==
  \/ \E b \in Batches : CallGetMessages(b)
  \/ \E d \in Descs : CallGetPrototype(_FACTORY, d)
  \/ Step

Spec == Init /\ [][Next]_vars

\* a call, once made, runs to completion: nothing suspends it
FairSpec == Spec /\ WF_vars(Step)

\* clients that also call CreatePrototype directly
NextCreate ==
  \/ \E b \in Batches : CallGetMessages(b)
  \/ \E d \in Descs : CallGetPrototype(_FACTORY, d)
  \/ \E d \in Descs : CallCreatePrototype(_FACTORY, d)
  \/ Step

SpecCreate == Init /\ [][NextCreate]_vars

\* clients that use a second factory on the same descriptors
NextTwo ==
  \/ \E b \in Batches : CallGetMessages(b)
  \/ \E self \in Factories, d \in Descs : CallGetPrototype(self, d)
  \/ Step

SpecTwo == Init /\ [][NextTwo]_vars

(***************************************************************************)
(* Definitions used by the properties                                      *)
(***************************************************************************)
\* the message types named by the fields of the descriptors of S
FieldSucc(S) ==
  S \cup (UNION {Range(fields[d]) : d \in S} \ {""})

RECURSIVE Iterate(_, _)
Iterate(S, n) == IF n = 0 THEN S ELSE Iterate(FieldSucc(S), n - 1)

\* the descriptors reachable from d through chains of message-typed fields
FieldReach(d) == Iterate({d}, Cardinality(Descs))

\* no descriptor reachable from d declares an extension in its namespace
ExtFree(d) == \A x \in FieldReach(d) : extensions[x] = <<>>

\* the files of batch b that p names as dependencies
InBatchDeps(b, p) ==
  {q \in Range(b) : \E k \in DOMAIN dependency[p] : dependency[p][k] = name[q]}

RECURSIVE DepClosure(_, _, _)
DepClosure(b, S, n) ==
  IF n = 0 THEN S
  ELSE DepClosure(b, S \cup UNION {InBatchDeps(b, q) : q \in S}, n - 1)

\* no file of b depends on itself through dependencies found in b
Acyclic(b) ==
  \A p \in Range(b) : p \notin DepClosure(b, InBatchDeps(b, p), Len(b))

\* every file passed to Add so far came after its dependencies found in b
OrderOK(b) ==
  \A k \in DOMAIN added :
    InBatchDeps(b, added[k]) \subseteq {added[m] : m \in 1..(k - 1)}

\* the files whose _AddFile call is in progress
InProgress == {stack[k].file : k \in {m \in DOMAIN stack : stack[m].fn = "_AddFile"}}

\* the CreatePrototype calls in progress, as positions of the stack
Building == {k \in DOMAIN stack : stack[k].fn = "CreatePrototype"}

\* the classes constructed for descriptor d
ClassesOf(d) == {c \in DOMAIN classes : classes[c].DESCRIPTOR = d}

\* the descriptors that building the descriptors of S asks for: their
\* message-typed fields, and the containing types and message value types
\* of the extensions of their namespaces
BuildSucc(S) ==
  FieldSucc(S) \cup
  UNION {{containing_type[e] : e \in Range(extensions[d])} : d \in S} \cup
  (UNION {{message_type[e] : e \in Range(extensions[d])} : d \in S} \ {""})

RECURSIVE IterateBuild(_, _)
IterateBuild(S, n) == IF n = 0 THEN S ELSE IterateBuild(BuildSucc(S), n - 1)

\* the descriptors reachable from d through fields and nested extensions
BuildReach(d) == IterateBuild({d}, Cardinality(Descs))

\* extension e is wired: it is registered on the cached class of its
\* containing type and its message value type, if any, has a class
Wired(e) ==
  /\ concrete_class[containing_type[e]] # 0
  /\ e \in classes[concrete_class[containing_type[e]]].exts
  /\ message_type[e] # "" => concrete_class[message_type[e]] # 0

\* the step being taken returns from the innermost CreatePrototype call
Completes ==
  /\ stack # <<>>
  /\ Top.fn = "CreatePrototype"
  /\ Len(stack') = Len(stack) - 1
  /\ status' # "error"

\* the messages declared directly in the files of S
Declared(S) == UNION {Range(message_types_by_name[p]) : p \in S}

\* the types needed to build the messages declared in S: those messages and
\* every message type their fields lead to
Required(S) == UNION {FieldReach(d) : d \in Declared(S)}

\* the registered files that the files of S depend on, directly or not
RECURSIVE FileDeps(_, _)
FileDeps(S, n) ==
  IF n = 0 THEN S
  ELSE FileDeps(S \cup {q \in pool : \E p \in S : name[q] \in Range(dependency[p])},
                n - 1)

\* the types declared in files that S merely depends on and that building
\* the messages of S does not need
MereDependency(S) ==
  Declared(FileDeps(S, Cardinality(Protos)) \ S) \ Required(S)

\* class c is fully built: every message-typed field of its descriptor has a
\* class, and every extension of its namespace is registered on the class of
\* its containing type and has a class for its message value type
FullyBuilt(c) ==
  LET d == classes[c].DESCRIPTOR
  IN /\ \A mt \in Range(fields[d]) \ {""} : concrete_class[mt] # 0
     /\ \A e \in Range(extensions[d]) :
          /\ concrete_class[containing_type[e]] # 0
          /\ e \in classes[concrete_class[containing_type[e]]].exts
          /\ message_type[e] # "" => concrete_class[message_type[e]] # 0

\* the classes a caller holds after the last call returned
Observable ==
  IF status # "ok" THEN {}
  ELSE IF cur.op = "GetPrototype" THEN {retClass}
  ELSE Range(retMap)

(***************************************************************************)
(* Properties                                                              *)
(***************************************************************************)
\* C1: GetPrototype(D) always returns one and the same class: a class that
\* exists is the cached class of its descriptor (so there is at most one per
\* descriptor and the entry is never replaced or evicted), and whatever a
\* top-level or nested GetPrototype call returns is that cached class.
C1_SameInstance ==
  /\ \A c \in DOMAIN classes : concrete_class[classes[c].DESCRIPTOR] = c
  /\ \A d \in Descs : concrete_class[d] # 0 => concrete_class[d] \in DOMAIN classes
  /\ (status = "ok" /\ cur.op = "GetPrototype")
        => (retClass # 0 /\ retClass = concrete_class[cur.d])
  /\ \A k \in DOMAIN stack :
        stack[k].fn = "CreatePrototype"
           => stack[k].cls = concrete_class[stack[k].d]
  /\ \A n \in DOMAIN result : result[n] = concrete_class[n]

\* C1 witness: a second call GetPrototype(M) returned the class that an
\* earlier call had built (this call alone would not have built Node first)
C1_Witness ==
  /\ calls = 2
  /\ cur.op = "GetPrototype"
  /\ cur.d = "M"
  /\ status = "ok"
  /\ Len(classes) = 2
  /\ classes[1].DESCRIPTOR = "Node"
  /\ retClass = 2

C3_Original ==
  cur.op = "GetMessages" =>
    /\ OrderOK(cur.batch)
    /\ pc # "resolve" => Range(cur.batch) \subseteq pool

\* C3 amended: for a batch whose dependencies within the batch are acyclic,
\* Add receives each file after all its dependencies found in the batch;
\* and when no Add failed, every file of the batch is registered once the
\* resolver is done.
C3_TopologicalAdd ==
  cur.op = "GetMessages" =>
    /\ Acyclic(cur.batch) => OrderOK(cur.batch)
    /\ (pc # "resolve" /\ Range(added) \subseteq pool)
          => Range(cur.batch) \subseteq pool

\* C3 witness: b, which depends on a, was given before a; both were added,
\* the dependency first
C3_Witness ==
  /\ cur.op = "GetMessages"
  /\ cur.batch = <<"b", "a">>
  /\ pc = "run"
  /\ added = <<"a", "b">>
  /\ pool = {"a", "b"}

\* C4: the mapping GetMessages returns is a function of the set of files
\* alone, whatever their order and the resolver's picks: its keys are the
\* messages declared in the files and each key maps to the one class of
\* that descriptor.
C4_OrderIndependent ==
  (status = "ok" /\ cur.op = "GetMessages") =>
    /\ DOMAIN retMap = Declared(Range(cur.batch))
    /\ \A n \in DOMAIN retMap :
         /\ retMap[n] = concrete_class[n]
         /\ retMap[n] \in DOMAIN classes
         /\ classes[retMap[n]].DESCRIPTOR = n

\* C4 witness: a batch given against its dependency order returned the
\* mapping of the four messages its files declare
C4_Witness ==
  /\ status = "ok"
  /\ cur.op = "GetMessages"
  /\ cur.batch = <<"b", "a">>
  /\ DOMAIN retMap = {"Node", "M", "A", "B"}

\* C5 as claimed: the mapping GetMessages returns holds the messages
\* declared in the requested files and every type their fields lead to, also
\* those declared in other files, and no type that is only declared in a
\* file the requested files depend on.
C5_Claim ==
  (status = "ok" /\ cur.op = "GetMessages") =>
    /\ Required(Range(cur.batch)) \subseteq DOMAIN retMap
    /\ DOMAIN retMap \cap MereDependency(Range(cur.batch)) = {}

\* C6: when GetMessages returns, every top-level extension of every
\* requested file is registered, under its number, on the class of its
\* containing type, which is the class the mapping holds for that type.
C6_ExtensionWired ==
  (status = "ok" /\ cur.op = "GetMessages") =>
    \A p \in Range(cur.batch) :
      \A e \in Range(extensions_by_name[p]) :
        LET ct == containing_type[e]
            c == concrete_class[ct]
        IN /\ c # 0
           /\ {x \in classes[c].exts : number[x] = number[e]} = {e}
           /\ ct \in DOMAIN retMap => retMap[ct] = c

\* C6 witness: GetMessages over b (declaring extension 100 of M) and a
\* (declaring M) returned M's class with the extension registered
C6_Witness ==
  /\ status = "ok"
  /\ cur.op = "GetMessages"
  /\ cur.batch = <<"b", "a">>
  /\ "M" \in DOMAIN retMap
  /\ "e100" \in classes[retMap["M"]].exts

\* C7: a step that registers an extension already registered on the class
\* succeeds and leaves all registered extensions as they were; a step that
\* registers a different extension under a number already used on the class
\* fails and leaves the registered extensions as they were.
C7_RegisterIdempotent ==
  [][(pc = "run" /\ stack # <<>> /\ Top.phase = "ext_reg" /\ Top.await = "none")
       => LET e == ExtList(Top)[Top.j]
              cl == classes[Top.ec]
          IN /\ e \in cl.exts => (classes' = classes /\ status' = "running")
             /\ (\E x \in cl.exts : x # e /\ number[x] = number[e])
                   => /\ status' = "error"
                      /\ err' = "ExtensionConflict"
                      /\ classes' = classes]_vars

\* C7 witness: registering r102 on M, where x102 holds number 102, failed
\* and x102 is still the extension registered there
C7_Witness ==
  /\ status = "error"
  /\ err = "ExtensionConflict"
  /\ cur.op = "GetPrototype"
  /\ cur.d = "R"
  /\ concrete_class["M"] # 0
  /\ {x \in classes[concrete_class["M"]].exts : number[x] = number["r102"]}
       = {"x102"}

\* C8: once Add has failed for a file of the batch (the file was passed to
\* Add and is not registered), the call has failed with that error, nothing
\* runs any more, and no mapping, complete or partial, exists.
C8_AddFailurePropagates ==
  (cur.op = "GetMessages" /\ \E k \in DOMAIN added : added[k] \notin pool) =>
    /\ status = "error"
    /\ err = "AddError"
    /\ pc = "idle"
    /\ stack = <<>>
    /\ retMap = EmptyMap
    /\ result = EmptyMap

\* C8 witness: the first file was registered, Add failed for the second,
\* and the call failed
C8_Witness ==
  /\ cur.op = "GetMessages"
  /\ status = "error"
  /\ Len(added) = 2
  /\ added[1] \in pool
  /\ added[2] \notin pool

\* C9 as claimed: every class a caller holds after a successful call is
\* fully built.
C9_Claim == \A c \in Observable : FullyBuilt(c)

\* C10: while GetMessages(<<>>) runs, no file is added, no class is built
\* and the call does not fail; when it returns, the mapping is empty.
C10_EmptyBatch ==
  [][(cur.op = "GetMessages" /\ cur.batch = <<>> /\ status = "running")
       => /\ pool' = pool
          /\ classes' = classes
          /\ concrete_class' = concrete_class
          /\ added' = <<>>
          /\ status' \in {"running", "ok"}
          /\ status' = "ok" => retMap' = EmptyMap]_vars

\* C10 witness: GetMessages(<<>>) returned the empty mapping on a factory
\* that already has registered files and classes
C10_Witness ==
  /\ cur.op = "GetMessages"
  /\ cur.batch = <<>>
  /\ status = "ok"
  /\ retMap = EmptyMap
  /\ pool # {}
  /\ classes # <<>>

\* C11 as claimed: for any batch the resolver ends with an empty pending
\* set and has passed each file to Add at most once.
C11_Original ==
  (cur.op = "GetMessages" /\ pc # "resolve") =>
    /\ file_by_name = {}
    /\ \A k, m \in DOMAIN added : added[k] = added[m] => k = m

\* C11 amended: for any batch, cyclic or not, the resolver ends; each file
\* of the batch is pending, in progress or passed to Add, in exactly one of
\* the three ways and never twice, so a file taken from the pending set is
\* not processed again; and when the resolver has ended without a failing
\* Add, the pending set is empty and every file was passed to Add once.
C11_ResolverOnce ==
  /\ [](cur.op = "GetMessages" =>
          /\ \A k, m \in DOMAIN added : added[k] = added[m] => k = m
          /\ Cardinality(InProgress) = Len(stack) \/ pc # "resolve"
          /\ file_by_name \cap InProgress = {}
          /\ file_by_name \cap Range(added) = {}
          /\ InProgress \cap Range(added) = {}
          /\ Range(added) \subseteq Range(cur.batch)
          /\ pc = "resolve" =>
               file_by_name \cup InProgress \cup Range(added) = Range(cur.batch)
          /\ (pc # "resolve" /\ Range(added) \subseteq pool)
                => (file_by_name = {} /\ Range(added) = Range(cur.batch)))
  /\ (pc = "resolve") ~> (pc # "resolve")

\* C11 witness: d and e depend on each other and e on itself; d was picked,
\* e was added from within d's visit, and nothing was left pending
C11_Witness ==
  /\ cur.op = "GetMessages"
  /\ cur.batch = <<"d", "e">>
  /\ pc = "idle"
  /\ added = <<"e">>
  /\ file_by_name = {}

\* C12: while CreatePrototype(D) is in progress there is one class of D, it
\* is the one descriptor._concrete_class names, no second CreatePrototype(D)
\* is in progress, and a nested GetPrototype(D) made by D's own extension
\* loop got that same class.
C12_Reentrant ==
  /\ \A k \in Building :
       /\ ClassesOf(stack[k].d) = {stack[k].cls}
       /\ GetPrototype(stack[k].d) = stack[k].cls
       /\ \A m \in Building : stack[m].d = stack[k].d => m = k
  /\ (stack # <<>> /\ Top.fn = "CreatePrototype" /\ Top.phase = "ext_reg"
        /\ Top.await = "none"
        /\ containing_type[ExtList(Top)[Top.j]] = Top.d)
       => Top.ec = Top.cls

\* C12 witness: building A entered B, and B's field of type A was passed
\* without a second class of A
C12_Witness ==
  /\ calls = 1
  /\ cur.op = "GetPrototype"
  /\ cur.d = "A"
  /\ Len(stack) = 2
  /\ Top.d = "B"
  /\ Top.phase = "fields"
  /\ Top.j = 2
  /\ stack[2].d = "A"
  /\ Len(classes) = 2

\* C13 as claimed: after a top-level GetPrototype(D) has returned, every
\* descriptor reachable from D through fields and nested extensions has a
\* class.
C13_Claim ==
  (status = "ok" /\ cur.op = "GetPrototype") =>
    \A x \in BuildReach(cur.d) : concrete_class[x] # 0

\* C14: when a CreatePrototype(D) call returns, every extension of D's
\* namespace is registered on the cached class of its containing type, and
\* the extension's message value type, if any, has a class.
C14_NestedExtensions ==
  [][Completes => \A e \in Range(extensions[Top.d]) : Wired(e)]_vars

\* C14 witness: CreatePrototype(P) is about to return; x101, which extends
\* P itself, is registered on P's class and x102 on M's
C14_Witness ==
  /\ stack # <<>>
  /\ Top.fn = "CreatePrototype"
  /\ Top.d = "P"
  /\ Top.phase = "ext_get"
  /\ Top.j = 3
  /\ "x101" \in classes[Top.cls].exts
  /\ "x102" \in classes[concrete_class["M"]].exts
  /\ concrete_class["A"] # 0

\* the outermost frame of the call in progress
Bottom == stack[Len(stack)]

\* C15: a direct CreatePrototype(D) call constructs a class that did not
\* exist before the call, whether or not D had a class already, goes on
\* building that class, and returns it: the class returned is distinct from
\* every class returned earlier, by GetPrototype(D) in particular.
C15_AlwaysNew ==
  [][/\ (calls' = calls + 1 /\ cur'.op = "CreatePrototype") =>
          /\ Len(classes') = Len(classes) + 1
          /\ SubSeq(classes', 1, Len(classes)) = classes
          /\ classes'[Len(classes')].DESCRIPTOR = cur'.d
          /\ concrete_class[cur'.d] # Len(classes')
          /\ stack'[Len(stack')].fn = "CreatePrototype"
          /\ stack'[Len(stack')].cls = Len(classes')
     /\ (cur.op = "CreatePrototype" /\ pc = "run" /\ pc' = "run") =>
          stack'[Len(stack')].cls = Bottom.cls
     /\ (cur.op = "CreatePrototype" /\ pc = "run" /\ status' = "ok") =>
          retClass' = Bottom.cls
    ]_vars

\* C15 witness: GetPrototype(P) returned class 1, then CreatePrototype(P)
\* returned another class for P
C15_Witness ==
  /\ calls = 2
  /\ cur.op = "CreatePrototype"
  /\ cur.d = "P"
  /\ status = "ok"
  /\ classes[1].DESCRIPTOR = "P"
  /\ classes[retClass].DESCRIPTOR = "P"
  /\ retClass # 1

\* C16 as claimed: every class returned by F.GetPrototype carries F as its
\* factory back-reference, that is, no factory returns a class another
\* factory built and cached.
C16_Claim ==
  (status = "ok" /\ cur.op = "GetPrototype") =>
    classes[retClass].FACTORY = cur.self

\* file p names a dependency that is neither in the batch nor registered
MissingDep(p) ==
  \E n \in Range(dependency[p]) :
    /\ n \notin {name[q] : q \in Range(cur.batch)}
    /\ n \notin {name[q] : q \in pool}

\* C17: only files of the batch are passed to Add; a file whose dependency
\* is neither in the batch nor registered is passed to Add all the same
\* (every _AddFile that has scanned its dependencies passes its file), the
\* registry rejects it and the call fails with the registry's error; a file
\* is left out only when an earlier Add has failed.
C17_NoSkip ==
  /\ [](cur.op = "GetMessages" =>
          /\ Range(added) \subseteq Range(cur.batch)
          /\ \A p \in Range(cur.batch) : MissingDep(p) =>
               /\ p \in Range(added) =>
                    /\ added[Len(added)] = p
                    /\ p \notin pool
                    /\ status = "error"
                    /\ err = "AddError"
               /\ (pc # "resolve" /\ p \notin Range(added)) =>
                    status = "error")
  /\ [][(pc = "resolve" /\ stack # <<>>
           /\ Top.i > Len(dependency[Top.file]))
          => added' = Append(added, Top.file)]_vars

\* C17 witness: b depends on a, which is neither in the batch nor
\* registered; b was passed to Add and the call failed
C17_Witness ==
  /\ cur.op = "GetMessages"
  /\ cur.batch = <<"b">>
  /\ pool = {}
  /\ added = <<"b">>
  /\ status = "error"
  /\ err = "AddError"

\* C18: a GetPrototype(D) call on a descriptor whose class is fully built
\* returns that class at once and constructs no class, registers no
\* extension, and leaves the registry and the cache as they were.
C18_CachedNoEffect ==
  [][(/\ calls' = calls + 1
      /\ cur'.op = "GetPrototype"
      /\ concrete_class[cur'.d] # 0
      /\ FullyBuilt(concrete_class[cur'.d]))
       => /\ classes' = classes
          /\ concrete_class' = concrete_class
          /\ pool' = pool
          /\ stack' = <<>>
          /\ pc' = "idle"
          /\ status' = "ok"
          /\ retClass' = concrete_class[cur'.d]]_vars

\* C18 witness: GetPrototype(P) built P, B, A and M; GetPrototype(B) then
\* returned B's class and there are still four classes
C18_Witness ==
  /\ calls = 2
  /\ cur.op = "GetPrototype"
  /\ cur.d = "B"
  /\ status = "ok"
  /\ Len(classes) = 4
  /\ classes[1].DESCRIPTOR = "P"
  /\ retClass = concrete_class["B"]
  /\ FullyBuilt(retClass)

\* C19: when Add has failed in GetMessages, every file passed to Add before
\* the failing one is registered and no mapping exists; no step ever takes
\* a file out of the registry; and no step of the resolver, the failing one
\* included, constructs a class or changes the cache.
C19_NoRollback ==
  /\ []((cur.op = "GetMessages" /\ err = "AddError") =>
          /\ \A k \in 1..(Len(added) - 1) : added[k] \in pool
          /\ retMap = EmptyMap)
  /\ [][pool \subseteq pool']_vars
  /\ [][(pc = "resolve" \/ pc' = "resolve") =>
          (classes' = classes /\ concrete_class' = concrete_class)]_vars

\* C19 witness: a was registered, Add then failed for d (its dependency e
\* is missing); a is still registered and no class exists
C19_Witness ==
  /\ calls = 1
  /\ cur.op = "GetMessages"
  /\ cur.batch = <<"a", "d">>
  /\ added = <<"a", "d">>
  /\ err = "AddError"
  /\ pool = {"a"}
  /\ classes = <<>>

=============================================================================
